---- MODULE Spec2Model ----
(***************************************************************************)
(* Amortization engine of src/src/mortgage_calculator.py:                  *)
(* MortgageCalculator (one loan) and MortgageComparison (an ordered list   *)
(* of loans).                                                              *)
(*                                                                         *)
(* Python's float is IEEE-754 binary64.  TLC's integers are 32 bits wide,  *)
(* so a float is modelled exactly, as sign, 53-bit significand and binary  *)
(* exponent, the significand being a natural number kept as a sequence of  *)
(* 15-bit limbs (least significant first).  Every arithmetic operation     *)
(* computes the exact result and rounds it to nearest, ties to even, as    *)
(* the hardware does.  Exponent overflow and subnormals are out of the     *)
(* range of the values the model draws; -0.0 is identified with 0.0 (the   *)
(* code compares with == and <, which do not tell them apart).             *)
(***************************************************************************)
EXTENDS Integers, Sequences, FiniteSets, TLC

\* ------------------------------------------------------------------------
\* Natural numbers of any size: sequences of limbs, least significant first,
\* no most-significant zero limb (so 0 is << >> and the form is canonical).
\* The limb-wise operations split their range in halves, which keeps the
\* evaluation shallow for long numbers.
\* ------------------------------------------------------------------------
LimbBase == 2 ^ 15
LimbBits == 15

Limb(a, i) == IF i <= Len(a) THEN a[i] ELSE 0

RECURSIVE NTrim(_)
NTrim(a) ==
    IF a = << >> THEN a
    ELSE IF a[Len(a)] = 0 THEN NTrim(SubSeq(a, 1, Len(a) - 1)) ELSE a

RECURSIVE NFromInt(_)
NFromInt(n) == IF n = 0 THEN << >> ELSE <<n % LimbBase>> \o NFromInt(n \div LimbBase)

\* limbs lo..hi of a + b + c, and the carry out of limb hi
RECURSIVE AddRange(_, _, _, _, _)
AddRange(a, b, lo, hi, c) ==
    IF lo = hi
    THEN LET s == Limb(a, lo) + Limb(b, lo) + c
         IN  << <<s % LimbBase>>, s \div LimbBase >>
    ELSE LET mid == (lo + hi) \div 2
             L   == AddRange(a, b, lo, mid, c)
             R   == AddRange(a, b, mid + 1, hi, L[2])
         IN  <<L[1] \o R[1], R[2]>>

NAdd(a, b) ==
    LET n == IF Len(a) > Len(b) THEN Len(a) ELSE Len(b)
    IN  IF n = 0 THEN << >>
        ELSE LET r == AddRange(a, b, 1, n, 0)
             IN  NTrim(IF r[2] = 0 THEN r[1] ELSE r[1] \o <<r[2]>>)

\* limbs lo..hi of a - b - c, and the borrow out of limb hi
RECURSIVE SubRange(_, _, _, _, _)
SubRange(a, b, lo, hi, c) ==
    IF lo = hi
    THEN LET d == Limb(a, lo) - Limb(b, lo) - c
         IN  IF d < 0 THEN << <<d + LimbBase>>, 1 >> ELSE << <<d>>, 0 >>
    ELSE LET mid == (lo + hi) \div 2
             L   == SubRange(a, b, lo, mid, c)
             R   == SubRange(a, b, mid + 1, hi, L[2])
         IN  <<L[1] \o R[1], R[2]>>

\* a - b for a >= b
NSub(a, b) == IF a = << >> THEN a ELSE NTrim(SubRange(a, b, 1, Len(a), 0)[1])

\* -1, 0, 1 as a < b, a = b, a > b
RECURSIVE NCmpAt(_, _, _)
NCmpAt(a, b, i) ==
    IF i = 0 THEN 0
    ELSE IF a[i] < b[i] THEN -1
    ELSE IF a[i] > b[i] THEN 1
    ELSE NCmpAt(a, b, i - 1)

NCmp(a, b) ==
    IF Len(a) < Len(b) THEN -1
    ELSE IF Len(a) > Len(b) THEN 1
    ELSE NCmpAt(a, b, Len(a))

\* a * k for 0 <= k < LimbBase: the low halves of the limb products plus
\* their high halves one limb up
NMulSmall(a, k) ==
    IF k = 0 \/ a = << >> THEN << >>
    ELSE IF k = 1 THEN a
    ELSE NAdd([i \in 1..Len(a) |-> (a[i] * k) % LimbBase],
              <<0>> \o [i \in 1..Len(a) |-> (a[i] * k) \div LimbBase])

NShlLimbs(a, k) == IF a = << >> \/ k = 0 THEN a ELSE [i \in 1..k |-> 0] \o a

\* a * (limbs lo..hi of b, in place)
RECURSIVE MulRange(_, _, _, _)
MulRange(a, b, lo, hi) ==
    IF lo = hi THEN NShlLimbs(NMulSmall(a, b[lo]), lo - 1)
    ELSE LET mid == (lo + hi) \div 2
         IN  NAdd(MulRange(a, b, lo, mid), MulRange(a, b, mid + 1, hi))

NMul(a, b) == IF a = << >> \/ b = << >> THEN << >> ELSE MulRange(a, b, 1, Len(b))

\* a * 2^n
NShl(a, n) == NShlLimbs(NMulSmall(a, 2 ^ (n % LimbBits)), n \div LimbBits)

\* floor(a / 2^n)
NShr(a, n) ==
    LET w == n \div LimbBits
        s == n % LimbBits
    IN  IF w >= Len(a) THEN << >>
        ELSE NTrim([i \in 1..(Len(a) - w) |->
                      (a[i + w] \div (2 ^ s))
                      + (Limb(a, i + w + 1) % (2 ^ s)) * (2 ^ (LimbBits - s))])

\* bit i of a, bit 0 the least significant
NBit(a, i) == (Limb(a, (i \div LimbBits) + 1) \div (2 ^ (i % LimbBits))) % 2

\* a mod 2^n = 0
NLowZero(a, n) ==
    LET w == n \div LimbBits
    IN  /\ \A i \in 1..w : Limb(a, i) = 0
        /\ Limb(a, w + 1) % (2 ^ (n % LimbBits)) = 0

RECURSIVE IntBitLen(_)
IntBitLen(n) == IF n = 0 THEN 0 ELSE 1 + IntBitLen(n \div 2)

NBitLen(a) == IF a = << >> THEN 0 ELSE LimbBits * (Len(a) - 1) + IntBitLen(a[Len(a)])

NIsOdd(a) == a # << >> /\ a[1] % 2 = 1

\* round a / 2^n to the nearest natural, ties to even; q = floor(a / 2^n)
Nearest(a, n, q) ==
    IF NBit(a, n - 1) = 1 /\ (~NLowZero(a, n - 1) \/ NIsOdd(q))
    THEN NAdd(q, <<1>>) ELSE q

NShrRound(a, n) == IF n = 0 THEN a ELSE Nearest(a, n, NShr(a, n))

\* floor(a / k) for 0 < k < LimbBase: limbs from the most significant down,
\* r the running remainder; <<quotient limbs, remainder>>
RECURSIVE NDivSmallAt(_, _, _, _)
NDivSmallAt(a, k, i, r) ==
    IF i = 0 THEN << << >>, r >>
    ELSE LET t    == r * LimbBase + a[i]
             rest == NDivSmallAt(a, k, i - 1, t % k)
         IN  <<rest[1] \o <<t \div k>>, rest[2]>>

NDivSmall(a, k) ==
    LET d == NDivSmallAt(a, k, Len(a), 0) IN <<NTrim(d[1]), d[2]>>

\* Binary long division.  st = <<q, r>> with r < b; one step appends the next
\* quotient bit: q2 = 2q, r2 = 2r.
NDivSubtract(q2, r2, b) ==
    IF NCmp(r2, b) >= 0 THEN <<NAdd(q2, <<1>>), NSub(r2, b)>> ELSE <<q2, r2>>

NDivBit(st, b) == NDivSubtract(NAdd(st[1], st[1]), NAdd(st[2], st[2]), b)

DigitBits == LimbBits \div 3

NDivStep(st, b) == NDivBit(NDivBit(NDivBit(NDivBit(NDivBit(st, b), b), b), b), b)

RECURSIVE NDivDigits(_, _, _)
NDivDigits(st, b, k) ==
    IF k = 0 \/ Len(st) = 0 THEN st ELSE NDivDigits(NDivStep(st, b), b, k - 1)

\* <<floor(a * 2^(k * DigitBits) / b), the remainder>> for b # 0, a < 2 * b
NDivShift(a, b, k) ==
    NDivDigits(IF NCmp(a, b) >= 0 THEN << <<1>>, NSub(a, b) >> ELSE << << >>, a >>,
               b, k)

\* a^n by squaring
RECURSIVE NPow(_, _)
NPow(a, n) ==
    IF n = 0 THEN <<1>>
    ELSE LET h  == NPow(a, n \div 2)
             sq == NMul(h, h)
         IN  IF n % 2 = 1 THEN NMul(sq, a) ELSE sq

\* ------------------------------------------------------------------------
\* binary64: [s |-> sign bit, m |-> significand, e |-> exponent], the value
\* (-1)^s * m * 2^e with 2^52 <= m < 2^53, or m = 0 (then s = 0, e = 0).
\*
\* Every computation on floats is one case of Eval, defined at the end of
\* this part; FromInt, FAdd, ... below are the names the rest of the module
\* uses for its cases.
\* ------------------------------------------------------------------------
MantBits == 53

RECURSIVE Eval(_, _, _)

\* float(n) for an integer n
FromInt(n) == Eval("FromInt", n, 0)
\* the literal d * 10^e of the source text: the binary64 nearest to it
Literal(d, e) == Eval("Literal", d, e)
\* x + y, x - y, x * y, x / y, x ** n, round(x, 2)
FAdd(x, y) == Eval("FAdd", x, y)
FSub(x, y) == Eval("FSub", x, y)
FMul(x, y) == Eval("FMul", x, y)
FDiv(x, y) == Eval("FDiv", x, y)
FPow(x, n) == Eval("FPow", x, n)
Round2(x) == Eval("Round2", x, 0)

FZero == [s |-> 0, m |-> << >>, e |-> 0]

IsZero(x) == x.m = << >>

\* q has MantBits bits, or one more after a round-up carried out of the top
Carried(s, q, e) ==
    IF NBitLen(q) > MantBits THEN [s |-> s, m |-> NShr(q, 1), e |-> e + 1]
    ELSE [s |-> s, m |-> q, e |-> e]

\* (-1)^s * M * 2^E rounded to the nearest binary64, ties to even
FRound(s, M, E) ==
    LET bl == NBitLen(M)
    IN  IF bl = 0 THEN FZero
        ELSE IF bl <= MantBits
        THEN [s |-> s, m |-> NShl(M, MantBits - bl), e |-> E - (MantBits - bl)]
        ELSE Carried(s, NShrRound(M, bl - MantBits), E + (bl - MantBits))

IntToFloat(n) == IF n < 0 THEN FRound(1, NFromInt(-n), 0) ELSE FRound(0, NFromInt(n), 0)

FNeg(x) == IF IsZero(x) THEN x ELSE [x EXCEPT !.s = 1 - x.s]

\* (-1)^sx * a * 2^e + (-1)^sy * b * 2^e
SignedSum(sx, a, sy, b, e) ==
    IF sx = sy THEN FRound(sx, NAdd(a, b), e)
    ELSE IF NCmp(a, b) >= 0 THEN FRound(sx, NSub(a, b), e)
    ELSE FRound(sy, NSub(b, a), e)

Sum(x, y) ==
    IF IsZero(x) THEN y
    ELSE IF IsZero(y) THEN x
    ELSE LET e == IF x.e < y.e THEN x.e ELSE y.e
         IN  SignedSum(x.s, NShl(x.m, x.e - e), y.s, NShl(y.m, y.e - e), e)

Product(x, y) ==
    IF IsZero(x) \/ IsZero(y) THEN FZero
    ELSE FRound((x.s + y.s) % 2, NMul(x.m, y.m), x.e + y.e)

\* x / y for y # 0: at least 55 quotient bits and a sticky bit, then
\* rounded.  A divisor whose significand is one limb wide (a small integer
\* times a power of two) is divided limb by limb, any other bit by bit.
DivDigits == (MantBits + 2) \div DigitBits
TopLimb == (MantBits - 1) \div LimbBits

\* twice the quotient, plus one when the division left a remainder
Sticky(q, inexact) == NAdd(NAdd(q, q), IF inexact THEN <<1>> ELSE << >>)

StickySmall(d) == Sticky(d[1], d[2] # 0)

StickyLong(d) == Sticky(d[1], d[2] # << >>)

Quotient(x, y) ==
    IF IsZero(x) THEN FZero
    ELSE IF NLowZero(y.m, TopLimb * LimbBits)
    THEN FRound((x.s + y.s) % 2,
                StickySmall(NDivSmall(NShlLimbs(x.m, 2), y.m[TopLimb + 1])),
                x.e - y.e - (TopLimb * LimbBits + 2 * LimbBits + 1))
    ELSE FRound((x.s + y.s) % 2, StickyLong(NDivShift(x.m, y.m, DivDigits)),
                x.e - y.e - (DivDigits * DigitBits + 1))

\* x ** n for an integer n >= 0: the exact power, rounded once (libm's pow)
Power(x, n) ==
    IF n = 0 THEN IntToFloat(1)
    ELSE IF IsZero(x) THEN FZero
    ELSE FRound((x.s * n) % 2, NPow(x.m, n), x.e * n)

\* d * 10^e for integers d and e; 10^-e is a binary64 for the exponents used
Ten == 10

LiteralValue(d, e) ==
    IF e >= 0
    THEN FRound(IF d < 0 THEN 1 ELSE 0,
                NMul(NFromInt(IF d < 0 THEN -d ELSE d), NPow(<<Ten>>, e)), 0)
    ELSE FDiv(FromInt(d), FRound(0, NPow(<<Ten>>, -e), 0))

\* x < y: by sign, then exponent, then significand
Sign(x) == IF IsZero(x) THEN 0 ELSE 1 - 2 * x.s

MagLt(x, y) == x.e < y.e \/ (x.e = y.e /\ NCmp(x.m, y.m) < 0)

FLt(x, y) ==
    IF Sign(x) # Sign(y) THEN Sign(x) < Sign(y)
    ELSE IF Sign(x) = 0 THEN FALSE
    ELSE IF Sign(x) = 1 THEN MagLt(x, y)
    ELSE MagLt(y, x)

FLe(x, y) == ~FLt(y, x)

\* Python's round(x, 2): the exact value of x rounded to the nearest multiple
\* of 1/100, ties to even, and the binary64 nearest to that decimal
Hundred == 100

Cents(x) ==
    IF x.e >= 0 THEN NShl(NMulSmall(x.m, Hundred), x.e)
    ELSE NShrRound(NMulSmall(x.m, Hundred), -x.e)

\* c / 100, with 5 limbs of quotient bits below the point and a sticky bit
CentsLimbs == 5

CentsToFloat(s, c) ==
    IF c = << >> THEN FZero
    ELSE FRound(s, StickySmall(NDivSmall(NShlLimbs(c, CentsLimbs), Hundred)),
                0 - (CentsLimbs * LimbBits + 1))

Rounded2(x) == IF IsZero(x) THEN FZero ELSE CentsToFloat(x.s, Cents(x))

\* ------------------------------------------------------------------------
\* Values of the program
\* ------------------------------------------------------------------------
\* None, and a pandas DataFrame holding the given rows
None == [none |-> TRUE]
DataFrame(rows) == [none |-> FALSE, rows |-> rows]

\* an omitted loan_name / start_date argument
NoName == << >>
NoDate == 0 - 1

MonthsPerYear == 12
DaysPerMonth == 30
\* the bug of clamping only below -0.01
ClampThresholdNegative == Literal(0 - 1, 0 - 2)

\* if remaining_balance < 0.01
ClampThreshold == Literal(1, 0 - 2)

\* f"{annual_rate*100:.1f}": the percentage in tenths (the one decimal the
\* format keeps, ties to even)
InTenths(x) ==
    IF IsZero(x) THEN 0
    ELSE IF x.e >= 0 THEN (1 - 2 * x.s) * Limb(NShl(NMulSmall(x.m, Ten), x.e), 1)
    ELSE (1 - 2 * x.s) * Limb(NShrRound(NMulSmall(x.m, Ten), -x.e), 1)

Tenths(annual_rate) == InTenths(FMul(annual_rate, FromInt(Hundred)))

\* f"{years}-Year @ {annual_rate*100:.1f}%": the pieces of the string
DefaultName(years, annual_rate) ==
    <<years, "-Year @ ", Eval("Tenths", annual_rate, 0), "%">>

\* ------------------------------------------------------------------------
\* MortgageCalculator
\* ------------------------------------------------------------------------
\* the outcome of a computation that may raise
Ok(v) == [exc |-> "none", val |-> v]
Raise(e) == [exc |-> e, val |-> FZero]

\* the bug of dividing the principal by the years at rate 0
CalculateMonthlyPaymentPerYear(principal, monthly_rate, num_payments) ==
    IF IsZero(monthly_rate)
    THEN IF num_payments < MonthsPerYear THEN Raise("ZeroDivisionError")
         ELSE Ok(FDiv(principal, FromInt(num_payments \div MonthsPerYear)))
    ELSE LET growth == FPow(FAdd(FromInt(1), monthly_rate), num_payments)
             num    == FMul(principal, FMul(monthly_rate, growth))
             den    == FSub(growth, FromInt(1))
         IN  IF IsZero(den) THEN Raise("ZeroDivisionError") ELSE Ok(FDiv(num, den))

\* the bug of answering a division by zero with 0.0 instead of raising
CalculateMonthlyPaymentUnsignalled(principal, monthly_rate, num_payments) ==
    IF IsZero(monthly_rate)
    THEN IF num_payments = 0 THEN Ok(FZero)
         ELSE Ok(FDiv(principal, FromInt(num_payments)))
    ELSE LET growth == FPow(FAdd(FromInt(1), monthly_rate), num_payments)
             num    == FMul(principal, FMul(monthly_rate, growth))
             den    == FSub(growth, FromInt(1))
         IN  IF IsZero(den) THEN Ok(FZero) ELSE Ok(FDiv(num, den))

\* _calculate_monthly_payment
CalculateMonthlyPayment(principal, monthly_rate, num_payments) ==
    IF IsZero(monthly_rate)
    THEN IF num_payments = 0 THEN Raise("ZeroDivisionError")
         ELSE Ok(FDiv(principal, FromInt(num_payments)))
    ELSE LET growth == FPow(FAdd(FromInt(1), monthly_rate), num_payments)
             num    == FMul(principal, FMul(monthly_rate, growth))
             den    == FSub(growth, FromInt(1))
         IN  IF IsZero(den) THEN Raise("ZeroDivisionError") ELSE Ok(FDiv(num, den))

\* the bug of adding the principal portion to the balance
NextBalanceAdded(remaining_balance, principal_payment) ==
    FAdd(remaining_balance, principal_payment)

\* remaining_balance -= principal_payment
NextBalance(remaining_balance, principal_payment) ==
    FSub(remaining_balance, principal_payment)

\* the bug of charging a year's interest every month
InterestPaymentPerYear(remaining_balance, monthly_rate) ==
    FMul(remaining_balance, FMul(monthly_rate, FromInt(MonthsPerYear)))

\* interest_payment = remaining_balance * self.monthly_rate
InterestPayment(remaining_balance, monthly_rate) ==
    FMul(remaining_balance, monthly_rate)

\* One pass of the loop of generate_amortization_table, without the payment
\* date.  st = [table_data, remaining_balance, total_interest_paid].
AmortizationStep(st, month, principal, monthly_rate, monthly_payment) ==
    LET interest_payment  == InterestPayment(st.remaining_balance, monthly_rate)
        principal_payment == FSub(monthly_payment, interest_payment)
        balance           == NextBalance(st.remaining_balance, principal_payment)
        total_interest    == FAdd(st.total_interest_paid, interest_payment)
        clamp             == FLt(balance, ClampThreshold)
        remaining_balance == IF clamp THEN FZero ELSE balance
        \* the clamp adds the balance after it was set to 0
        principal_final   == IF clamp THEN FAdd(principal_payment, remaining_balance)
                             ELSE principal_payment
    IN  [table_data |-> Append(st.table_data,
            [Month                |-> month,
             Payment              |-> Round2(monthly_payment),
             Principal            |-> Round2(principal_final),
             Interest             |-> Round2(interest_payment),
             Remaining_Balance    |-> Round2(remaining_balance),
             Total_Interest_Paid  |-> Round2(total_interest),
             Cumulative_Principal |-> Round2(FSub(principal, remaining_balance))]),
         remaining_balance   |-> remaining_balance,
         total_interest_paid |-> total_interest,
         \* the values of the local variables when the row is appended, and
         \* the balance that line 59 tested
         locals |-> Append(st.locals,
            [interest_payment    |-> interest_payment,
             principal_payment   |-> principal_final,
             tested_balance      |-> balance,
             remaining_balance   |-> remaining_balance,
             total_interest_paid |-> total_interest])]

\* the bug of ending the schedule with the row that pays the loan off
RECURSIVE AmortizationLoopUntilPaid(_, _, _, _, _, _)
AmortizationLoopUntilPaid(st, month, principal, monthly_rate, num_payments, monthly_payment) ==
    IF month > num_payments \/ Len(st.table_data) >= num_payments
          \/ (month > 1 /\ IsZero(st.remaining_balance))
    THEN st
    ELSE AmortizationLoopUntilPaid(
            AmortizationStep(st, month, principal, monthly_rate, monthly_payment),
            month + 1, principal, monthly_rate, num_payments, monthly_payment)

\* for month in range(1, num_payments + 1).  Len(st.table_data) = month - 1
\* throughout; testing it as well makes TLC evaluate st before it descends.
RECURSIVE AmortizationLoop(_, _, _, _, _, _)
AmortizationLoop(st, month, principal, monthly_rate, num_payments, monthly_payment) ==
    IF month > num_payments \/ Len(st.table_data) >= num_payments THEN st
    ELSE AmortizationLoop(
            AmortizationStep(st, month, principal, monthly_rate, monthly_payment),
            month + 1, principal, monthly_rate, num_payments, monthly_payment)

\* the call: its table_data and, row by row, its local variables
AmortizationRun(principal, monthly_rate, num_payments, monthly_payment) ==
    AmortizationLoop([table_data |-> << >>, remaining_balance |-> principal,
                      total_interest_paid |-> FZero, locals |-> << >>],
                     1, principal, monthly_rate, num_payments, monthly_payment)

AmortizationRows(run) == run.table_data

\* ------------------------------------------------------------------------
\* Bounds and the arguments the callers draw, as the literals <<d, e>> of a
\* source text (d * 10^e)
\* ------------------------------------------------------------------------
MaxLoans == 2
MaxYears == 2
MaxClock == 1

\* principals: 0, 0.017, 0.05, 100000, 1e17 and -100
Principals ==
    {<<0, 0>>, <<17, -3>>, <<5, -2>>, <<100000, 0>>, <<1, 17>>, <<-100, 0>>}

\* annual rates: 0, 0.06, 2e-15 and 1e-15
Rates == {<<0, 0>>, <<6, -2>>, <<2, -15>>, <<1, -15>>}

Years == 1..MaxYears

\* what a set of two loans draws
SetPrincipals == {<<0, 0>>, <<100000, 0>>}
SetRates == {<<6, -2>>}
SetYears == {1}
SetNames == {NoName, <<"A">>}
SetDates == {NoDate, 0}

\* what a comparison of terms draws: 100000 at 0, 0.06 and 1e-8 a year, over
\* 0..MaxYears years
TermPrincipals == {<<100000, 0>>}
TermRates == {<<0, 0>>, <<6, -2>>, <<1, -8>>}
TermYears == 0..MaxYears

\* ------------------------------------------------------------------------
\* The arithmetic of a loan is a function of its constructor arguments and
\* of the fields derived from them.  It is evaluated once per argument tuple,
\* when the run starts, and kept in the variable arith, where the operations
\* below look it up.
\* ------------------------------------------------------------------------
\* the bug of taking the years for the number of payments
NumPaymentsInYears(years) == years

\* self.num_payments = years * 12
NumPayments(years) == years * MonthsPerYear

\* __init__: monthly_rate, num_payments, monthly_payment
Derive(principal, annual_rate, years) ==
    LET monthly_rate == FDiv(annual_rate, FromInt(MonthsPerYear))
        num_payments == NumPayments(years)
        payment      == CalculateMonthlyPayment(principal, monthly_rate, num_payments)
    IN  [exc |-> payment.exc, monthly_rate |-> monthly_rate,
         num_payments |-> num_payments, monthly_payment |-> payment.val]

\* get_loan_summary: total_paid, total_interest, interest_percentage
SummaryNumbers(principal, monthly_payment, num_payments) ==
    LET total_paid     == FMul(monthly_payment, FromInt(num_payments))
        total_interest == FSub(total_paid, principal)
    IN  IF IsZero(total_paid)
        THEN [exc |-> "ZeroDivisionError", total_paid |-> total_paid,
              total_interest |-> total_interest, interest_percentage |-> FZero]
        ELSE [exc |-> "none", total_paid |-> total_paid,
              total_interest |-> total_interest,
              interest_percentage |->
                  FMul(FDiv(total_interest, total_paid), FromInt(Hundred))]

\* the argument tuples whose constructor returns
Constructed(derived) == {k \in DOMAIN derived : derived[k].exc = "none"}

Runs(derived) ==
    [q \in {<<k[1], derived[k].monthly_rate, derived[k].num_payments,
              derived[k].monthly_payment>> : k \in Constructed(derived)}
        |-> AmortizationRun(q[1], q[2], q[3], q[4])]

TablesOf(derived, runs) ==
    [derived   |-> derived,
     rows      |-> [q \in DOMAIN runs |-> AmortizationRows(runs[q])],
     locals    |-> [q \in DOMAIN runs |-> runs[q].locals],
     summaries |-> [q \in {<<k[1], derived[k].monthly_payment,
                             derived[k].num_payments>> : k \in Constructed(derived)}
                       |-> SummaryNumbers(q[1], q[2], q[3])]]

Tables(derived) == TablesOf(derived, Runs(derived))

\* args: triples <<principal literal, annual rate literal, years>>
ArithmeticOf(args) ==
    Tables([k \in {<<Literal(a[1][1], a[1][2]), Literal(a[2][1], a[2][2]), a[3]>> :
                     a \in args}
              |-> Derive(k[1], k[2], k[3])])

Eval(op, x, y) ==
    CASE op = "FromInt"    -> IntToFloat(x)
      [] op = "Literal"    -> LiteralValue(x, y)
      [] op = "FAdd"       -> Sum(x, y)
      [] op = "FSub"       -> Sum(x, FNeg(y))
      [] op = "FMul"       -> Product(x, y)
      [] op = "FDiv"       -> Quotient(x, y)
      [] op = "FPow"       -> Power(x, y)
      [] op = "Round2"     -> Rounded2(x)
      [] op = "Tenths"     -> Tenths(x)
      [] op = "Arithmetic" -> ArithmeticOf(x)

Arithmetic(args) == Eval("Arithmetic", args, 0)

\* ------------------------------------------------------------------------
\* State
\* ------------------------------------------------------------------------
VARIABLES
    loans,      \* MortgageComparison.loans: the MortgageCalculator objects
    now,        \* what datetime.now() returns, in days
    result,     \* the last call: its name, the loan it was made on, what it
                \* raised or returned (for an add_loan that raised, the
                \* arguments it was given), and the loans whose
                \* generate_amortization_table ran during it
    arith,      \* the arithmetic of the argument tuples the callers draw
    frame       \* the generate_amortization_table call that is between its
                \* first and its last statement: the loan it runs on and its
                \* local table_data

vars == <<loans, now, result, arith, frame>>

\* no call is in progress
Idle == [loan |-> 0, table_data |-> << >>]

Returned(op, i, value, generated) ==
    [op |-> op, loan |-> i, exc |-> "none", value |-> value, generated |-> generated]

Raised(op, i, exc, generated) ==
    [op |-> op, loan |-> i, exc |-> exc, value |-> << >>, generated |-> generated]

\* MortgageCalculator.__init__; started records whether start_date was given
MortgageCalculator(principal, annual_rate, years, loan_name, start_date) ==
    LET d == arith.derived[<<principal, annual_rate, years>>]
    IN  [exc |-> d.exc,
         val |-> [principal          |-> principal,
                  annual_rate        |-> annual_rate,
                  years              |-> years,
                  loan_name          |-> loan_name,
                  start_date         |-> IF start_date = NoDate THEN now ELSE start_date,
                  started            |-> start_date # NoDate,
                  monthly_rate       |-> d.monthly_rate,
                  num_payments       |-> d.num_payments,
                  monthly_payment    |-> d.monthly_payment,
                  amortization_table |-> None]]

\* the bug of counting the payment dates from the day of the call
AmortizationTableFromToday(loan) ==
    LET rows == arith.rows[<<loan.principal, loan.monthly_rate, loan.num_payments,
                             loan.monthly_payment>>]
    IN  DataFrame([m \in 1..Len(rows) |->
            [Month                |-> rows[m].Month,
             Payment_Date         |-> now + DaysPerMonth * rows[m].Month,
             Payment              |-> rows[m].Payment,
             Principal            |-> rows[m].Principal,
             Interest             |-> rows[m].Interest,
             Remaining_Balance    |-> rows[m].Remaining_Balance,
             Total_Interest_Paid  |-> rows[m].Total_Interest_Paid,
             Cumulative_Principal |-> rows[m].Cumulative_Principal]])

\* the DataFrame generate_amortization_table builds for a loan
AmortizationTable(loan) ==
    LET rows == arith.rows[<<loan.principal, loan.monthly_rate, loan.num_payments,
                             loan.monthly_payment>>]
    IN  DataFrame([m \in 1..Len(rows) |->
            [Month                |-> rows[m].Month,
             Payment_Date         |-> loan.start_date + DaysPerMonth * rows[m].Month,
             Payment              |-> rows[m].Payment,
             Principal            |-> rows[m].Principal,
             Interest             |-> rows[m].Interest,
             Remaining_Balance    |-> rows[m].Remaining_Balance,
             Total_Interest_Paid  |-> rows[m].Total_Interest_Paid,
             Cumulative_Principal |-> rows[m].Cumulative_Principal]])

\* the bug of generating the schedule on every query
NeedsTableAlways(loan) == TRUE

\* if self.amortization_table is None
NeedsTable(loan) == loan.amortization_table.none

\* if self.amortization_table is None: self.generate_amortization_table()
Ensured(loan) ==
    IF NeedsTable(loan)
    THEN [loan EXCEPT !.amortization_table = AmortizationTable(loan)]
    ELSE loan

\* the dictionary get_loan_summary returns, or what it raises
LoanSummary(loan) ==
    LET n == arith.summaries[<<loan.principal, loan.monthly_payment, loan.num_payments>>]
    IN  [exc |-> n.exc,
         val |-> [loan_name           |-> loan.loan_name,
                  principal           |-> loan.principal,
                  annual_rate         |-> loan.annual_rate,
                  monthly_rate        |-> loan.monthly_rate,
                  years               |-> loan.years,
                  monthly_payment     |-> loan.monthly_payment,
                  total_payments      |-> loan.num_payments,
                  total_paid          |-> n.total_paid,
                  total_interest      |-> n.total_interest,
                  interest_percentage |-> n.interest_percentage]]

\* the bug of taking the 1-based month for the 0-based index
MonthIdxOneBased(year) == year * MonthsPerYear

\* month_idx = year * 12 - 1
MonthIdx(year) == year * MonthsPerYear - 1

\* the rows get_year_end_balances collects from a table, for year..years
RECURSIVE YearEnds(_, _, _)
YearEnds(rows, year, years) ==
    IF year > years THEN << >>
    ELSE LET month_idx == MonthIdx(year)
         IN  IF month_idx < Len(rows)
             THEN << [Year                 |-> year,
                      Remaining_Balance    |-> rows[month_idx + 1].Remaining_Balance,
                      Total_Interest_Paid  |-> rows[month_idx + 1].Total_Interest_Paid,
                      Cumulative_Principal |-> rows[month_idx + 1].Cumulative_Principal] >>
                  \o YearEnds(rows, year + 1, years)
             ELSE YearEnds(rows, year + 1, years)

\* ------------------------------------------------------------------------
\* Operations
\* ------------------------------------------------------------------------
InitOver(args) ==
    /\ loans = << >>
    /\ now = 0
    /\ result = Returned("init", 0, << >>, << >>)
    /\ arith = Arithmetic(args)
    /\ frame = Idle

Init == InitOver(SetPrincipals \X SetRates \X SetYears)

LoanInit == InitOver(Principals \X Rates \X Years)

\* the bug of generating the schedule of a loan as it is added
AddLoanGenerating(principal, annual_rate, years, loan_name, start_date) ==
    LET name == IF loan_name = NoName THEN DefaultName(years, annual_rate)
                ELSE loan_name
        made == MortgageCalculator(principal, annual_rate, years, name, start_date)
    IN  /\ IF made.exc = "none"
           THEN /\ loans' = Append(loans, Ensured(made.val))
                /\ result' = Returned("add_loan", Len(loans) + 1, << >>, << >>)
           ELSE /\ loans' = loans
                /\ result' = [Raised("add_loan", 0, made.exc, << >>)
                                 EXCEPT !.value = <<principal, annual_rate, years>>]
        /\ UNCHANGED <<now, arith, frame>>

\* the bug of putting the new loan in front of the list
AddLoanInFront(principal, annual_rate, years, loan_name, start_date) ==
    LET name == IF loan_name = NoName THEN DefaultName(years, annual_rate)
                ELSE loan_name
        made == MortgageCalculator(principal, annual_rate, years, name, start_date)
    IN  /\ IF made.exc = "none"
           THEN /\ loans' = <<made.val>> \o loans
                /\ result' = Returned("add_loan", 1, << >>, << >>)
           ELSE /\ loans' = loans
                /\ result' = [Raised("add_loan", 0, made.exc, << >>)
                                 EXCEPT !.value = <<principal, annual_rate, years>>]
        /\ UNCHANGED <<now, arith, frame>>

\* MortgageComparison.add_loan
AddLoan(principal, annual_rate, years, loan_name, start_date) ==
    LET name == IF loan_name = NoName THEN DefaultName(years, annual_rate)
                ELSE loan_name
        made == MortgageCalculator(principal, annual_rate, years, name, start_date)
    IN  /\ IF made.exc = "none"
           THEN /\ loans' = Append(loans, made.val)
                /\ result' = Returned("add_loan", Len(loans) + 1, << >>, << >>)
           ELSE /\ loans' = loans
                /\ result' = [Raised("add_loan", 0, made.exc, << >>)
                                 EXCEPT !.value = <<principal, annual_rate, years>>]
        /\ UNCHANGED <<now, arith, frame>>

\* the bug of keeping the rounded payment as the loan's monthly payment
GenerateAmortizationTableRounding(i) ==
    LET table == AmortizationTable(loans[i])
    IN  /\ loans' = [loans EXCEPT ![i].amortization_table = table,
                                  ![i].monthly_payment = table.rows[1].Payment]
        /\ result' = Returned("generate_amortization_table", i, table.rows, <<i>>)
        /\ UNCHANGED <<now, arith, frame>>

\* the bug of keeping the table in an attribute of the class, which all
\* loans share
GenerateAmortizationTableShared(i) ==
    LET table == AmortizationTable(loans[i])
    IN  /\ loans' = [j \in 1..Len(loans) |->
                        [loans[j] EXCEPT !.amortization_table = table]]
        /\ result' = Returned("generate_amortization_table", i, table.rows, <<i>>)
        /\ UNCHANGED <<now, arith, frame>>

\* MortgageCalculator.generate_amortization_table on loans[i]
GenerateAmortizationTable(i) ==
    LET table == AmortizationTable(loans[i])
    IN  /\ loans' = [loans EXCEPT ![i].amortization_table = table]
        /\ result' = Returned("generate_amortization_table", i, table.rows, <<i>>)
        /\ UNCHANGED <<now, arith, frame>>

\* MortgageCalculator.get_loan_summary on loans[i]
GetLoanSummary(i) ==
    LET loan    == Ensured(loans[i])
        summary == LoanSummary(loan)
        ran     == IF NeedsTable(loans[i]) THEN <<i>> ELSE << >>
    IN  /\ loans' = [loans EXCEPT ![i] = loan]
        /\ result' = IF summary.exc = "none"
                     THEN Returned("get_loan_summary", i, <<summary.val>>, ran)
                     ELSE Raised("get_loan_summary", i, summary.exc, ran)
        /\ UNCHANGED <<now, arith, frame>>

\* MortgageCalculator.get_year_end_balances on loans[i]
GetYearEndBalances(i) ==
    LET loan == Ensured(loans[i])
        ran  == IF NeedsTable(loans[i]) THEN <<i>> ELSE << >>
    IN  /\ loans' = [loans EXCEPT ![i] = loan]
        /\ result' = Returned("get_year_end_balances", i,
                              YearEnds(loan.amortization_table.rows, 1, loan.years), ran)
        /\ UNCHANGED <<now, arith, frame>>

\* the bug of reversing self.loans in place to list the newest loan first
CompareLoansReversing ==
    LET n   == Len(loans)
        bad == {i \in 1..n : LoanSummary(loans[i]).exc # "none"}
        ran == SelectSeq([i \in 1..n |-> i], LAMBDA i : NeedsTable(loans[i]))
    IN  /\ loans' = [i \in 1..n |-> Ensured(loans[n + 1 - i])]
        /\ result' = IF bad = {}
                     THEN Returned("compare_loans", 0,
                                   [i \in 1..n |-> LoanSummary(loans[n + 1 - i]).val], ran)
                     ELSE Raised("compare_loans", 0, "ZeroDivisionError", ran)
        /\ UNCHANGED <<now, arith, frame>>

\* MortgageComparison.compare_loans: get_loan_summary on each loan in turn;
\* the first one that raises ends the call
CompareLoans ==
    LET n    == Len(loans)
        bad  == {i \in 1..n : LoanSummary(loans[i]).exc # "none"}
        stop == IF bad = {} THEN n ELSE CHOOSE i \in bad : \A j \in bad : i <= j
        ran  == SelectSeq([i \in 1..stop |-> i],
                          LAMBDA i : NeedsTable(loans[i]))
    IN  /\ loans' = [i \in 1..n |-> IF i <= stop THEN Ensured(loans[i]) ELSE loans[i]]
        /\ result' = IF bad = {}
                     THEN Returned("compare_loans", 0,
                                   [i \in 1..n |-> LoanSummary(loans[i]).val], ran)
                     ELSE Raised("compare_loans", 0, LoanSummary(loans[stop]).exc, ran)
        /\ UNCHANGED <<now, arith, frame>>

\* the bug of putting each frame in front of the ones collected before it
RECURSIVE ConcatReversed(_, _)
ConcatReversed(frames, i) ==
    IF i > Len(frames) THEN << >> ELSE ConcatReversed(frames, i + 1) \o frames[i]

\* pd.concat(combined_data, ignore_index=True), from frame i on
RECURSIVE Concat(_, _)
Concat(frames, i) ==
    IF i > Len(frames) THEN << >> ELSE frames[i] \o Concat(frames, i + 1)

\* the copy of a loan's table with the Loan_Name column added
Tagged(loan) ==
    LET rows == loan.amortization_table.rows
    IN  [m \in 1..Len(rows) |->
            [Month                |-> rows[m].Month,
             Payment_Date         |-> rows[m].Payment_Date,
             Payment              |-> rows[m].Payment,
             Principal            |-> rows[m].Principal,
             Interest             |-> rows[m].Interest,
             Remaining_Balance    |-> rows[m].Remaining_Balance,
             Total_Interest_Paid  |-> rows[m].Total_Interest_Paid,
             Cumulative_Principal |-> rows[m].Cumulative_Principal,
             Loan_Name            |-> loan.loan_name]]

\* the bug of adding the Loan_Name column to the loan's own table
GetCombinedAmortizationInPlace ==
    LET n   == Len(loans)
        ran == SelectSeq([i \in 1..n |-> i], LAMBDA i : NeedsTable(loans[i]))
    IN  /\ loans' = [i \in 1..n |->
                        [loans[i] EXCEPT !.amortization_table =
                                             DataFrame(Tagged(Ensured(loans[i])))]]
        /\ result' = IF n = 0
                     THEN Raised("get_combined_amortization", 0, "ValueError", ran)
                     ELSE Returned("get_combined_amortization", 0,
                                   Concat([i \in 1..n |-> Tagged(Ensured(loans[i]))], 1),
                                   ran)
        /\ UNCHANGED <<now, arith, frame>>

\* the bug of answering an empty list of loans with an empty table
GetCombinedAmortizationOrEmpty ==
    LET n   == Len(loans)
        ran == SelectSeq([i \in 1..n |-> i], LAMBDA i : NeedsTable(loans[i]))
    IN  /\ loans' = [i \in 1..n |-> Ensured(loans[i])]
        /\ result' = Returned("get_combined_amortization", 0,
                              Concat([i \in 1..n |-> Tagged(Ensured(loans[i]))], 1),
                              ran)
        /\ UNCHANGED <<now, arith, frame>>

\* MortgageComparison.get_combined_amortization; pd.concat of an empty list
\* raises ValueError
GetCombinedAmortization ==
    LET n   == Len(loans)
        ran == SelectSeq([i \in 1..n |-> i], LAMBDA i : NeedsTable(loans[i]))
    IN  /\ loans' = [i \in 1..n |-> Ensured(loans[i])]
        /\ result' = IF n = 0
                     THEN Raised("get_combined_amortization", 0, "ValueError", ran)
                     ELSE Returned("get_combined_amortization", 0,
                                   Concat([i \in 1..n |-> Tagged(Ensured(loans[i]))], 1),
                                   ran)
        /\ UNCHANGED <<now, arith, frame>>

\* time passes
Tick ==
    /\ now < MaxClock
    /\ now' = now + 1
    /\ UNCHANGED <<loans, result, arith, frame>>

\* add_loan, on the arguments the run draws (DOMAIN arith.derived)
AddSetLoan ==
    /\ Len(loans) < MaxLoans
    /\ \E k \in DOMAIN arith.derived, name \in SetNames, date \in SetDates :
          AddLoan(k[1], k[2], k[3], name, date)

AddOneLoan ==
    /\ Len(loans) < 1
    /\ \E k \in DOMAIN arith.derived : AddLoan(k[1], k[2], k[3], <<"A">>, 0)

OnLoan ==
    \E i \in 1..Len(loans) :
        \/ GenerateAmortizationTable(i)
        \/ GetLoanSummary(i)
        \/ GetYearEndBalances(i)

\* a set of up to MaxLoans loans
Next ==
    \/ AddSetLoan
    \/ OnLoan
    \/ CompareLoans
    \/ GetCombinedAmortization
    \/ Tick

Spec == Init /\ [][Next]_vars

\* add_loan with the name and the start date left out, on the terms compared
AddTermLoan ==
    /\ Len(loans) < MaxLoans
    /\ \E k \in DOMAIN arith.derived : AddLoan(k[1], k[2], k[3], NoName, NoDate)

TermInit == InitOver(TermPrincipals \X TermRates \X TermYears)

\* a set of up to MaxLoans loans of one principal and several terms
TermNext ==
    \/ AddTermLoan
    \/ OnLoan
    \/ CompareLoans
    \/ GetCombinedAmortization

TermSpec == TermInit /\ [][TermNext]_vars

\* The loans whose cached DataFrame is the very object the last call
\* returned: generate_amortization_table returns self.amortization_table
\* itself, get_combined_amortization the frame pd.concat built from copies.
Aliased(r) == IF r.op = "generate_amortization_table" THEN {r.loan} ELSE {}

\* the first row's Payment set to 0.0
Changed(rows) == [rows EXCEPT ![1].Payment = FZero]

\* the caller assigns into the table it was returned: every holder of that
\* object sees the assignment
ChangeResult ==
    /\ result.op \in {"generate_amortization_table", "get_combined_amortization"}
    /\ result.exc = "none"
    /\ Len(result.value) >= 1
    /\ result.value[1].Payment # FZero
    /\ result' = [result EXCEPT !.value = Changed(@)]
    /\ loans' = [i \in 1..Len(loans) |->
                    IF i \in Aliased(result)
                    THEN [loans[i] EXCEPT !.amortization_table.rows = Changed(@)]
                    ELSE loans[i]]
    /\ UNCHANGED <<now, arith, frame>>

GenerateOnLoan == \E i \in 1..Len(loans) : GenerateAmortizationTable(i)

\* a set of loans and a caller that writes into the tables it is returned
CallerNext ==
    \/ AddSetLoan
    \/ GenerateOnLoan
    \/ GetCombinedAmortization
    \/ ChangeResult

CallerSpec == Init /\ [][CallerNext]_vars

\* generate_amortization_table statement by statement.  The interpreter runs
\* one call at a time: a call is entered only when none is in progress.
\* table_data = [] (lines 47-49)
GenerateEnter(i) ==
    /\ frame = Idle
    /\ frame' = [loan |-> i, table_data |-> << >>]
    /\ UNCHANGED <<loans, now, result, arith>>

\* the bug of leaving the loop after the first row
LoopDoneEarly(loan, table_data) == Len(table_data) >= 1

\* range(1, self.num_payments + 1) is exhausted
LoopDone(loan, table_data) == Len(table_data) >= loan.num_payments

\* one pass of the loop: table_data.append({...}) (lines 51-72)
GenerateRow ==
    /\ frame # Idle
    /\ ~LoopDone(loans[frame.loan], frame.table_data)
    /\ LET month == Len(frame.table_data) + 1
       IN  frame' = [frame EXCEPT !.table_data =
                        Append(@, AmortizationTable(loans[frame.loan]).rows[month])]
    /\ UNCHANGED <<loans, now, result, arith>>

\* self.amortization_table = pd.DataFrame(table_data); return (lines 74-75)
GeneratePublish ==
    /\ frame # Idle
    /\ LoopDone(loans[frame.loan], frame.table_data)
    /\ loans' = [loans EXCEPT ![frame.loan].amortization_table =
                                  DataFrame(frame.table_data)]
    /\ result' = Returned("generate_amortization_table", frame.loan,
                          frame.table_data, <<frame.loan>>)
    /\ frame' = Idle
    /\ UNCHANGED <<now, arith>>

AddWhenIdle == frame = Idle /\ AddSetLoan

EnterOnLoan == \E i \in 1..Len(loans) : GenerateEnter(i)

\* a set of loans whose schedules are generated statement by statement
GenNext ==
    \/ AddWhenIdle
    \/ EnterOnLoan
    \/ GenerateRow
    \/ GeneratePublish

GenSpec == Init /\ [][GenNext]_vars

\* one loan, over all the principals, rates and terms
LoanNext ==
    \/ AddOneLoan
    \/ OnLoan
    \/ CompareLoans
    \/ GetCombinedAmortization
    \/ Tick

LoanSpec == LoanInit /\ [][LoanNext]_vars

\* ------------------------------------------------------------------------
\* Properties
\* ------------------------------------------------------------------------
\* principal > 0, 0 <= annual_rate < 1, years >= 1
Valid(loan) ==
    /\ FLt(FZero, loan.principal)
    /\ FLe(FZero, loan.annual_rate)
    /\ FLt(loan.annual_rate, FromInt(1))
    /\ loan.years >= 1

HasTable(loan) == ~loan.amortization_table.none

Scheduled == {i \in 1..Len(loans) : HasTable(loans[i])}

RowsOf(i) == loans[i].amortization_table.rows

\* C1: for every loan with principal > 0, 0 <= annual_rate < 1 and
\* years >= 1, the last row of the schedule generate_amortization_table
\* produced has a remaining balance of exactly 0.
C1_LastBalanceZero ==
    \A i \in Scheduled :
        Valid(loans[i]) => RowsOf(i)[Len(RowsOf(i))].Remaining_Balance = FZero

\* C2: for every loan with years >= 1 the schedule has exactly years * 12
\* rows, and the Month values of the rows are 1, 2, ..., years * 12 in that
\* order.
C2_RowPerMonth ==
    \A i \in Scheduled :
        /\ Len(RowsOf(i)) = loans[i].years * 12
        /\ \A m \in 1..Len(RowsOf(i)) : RowsOf(i)[m].Month = m

\* a loan of two years holds its schedule of 24 rows
C2_Witness ==
    \E i \in Scheduled : loans[i].years = 2 /\ Len(RowsOf(i)) = 24

\* Exact (unrounded) sums of binary64 values: [s, m, e] with any natural m.
ExactSigned(sx, a, sy, b, e) ==
    IF sx = sy THEN [s |-> sx, m |-> NAdd(a, b), e |-> e]
    ELSE IF NCmp(a, b) >= 0 THEN [s |-> sx, m |-> NSub(a, b), e |-> e]
    ELSE [s |-> sy, m |-> NSub(b, a), e |-> e]

ExactAdd(x, y) ==
    IF x.m = << >> THEN y
    ELSE IF y.m = << >> THEN x
    ELSE LET e == IF x.e < y.e THEN x.e ELSE y.e
         IN  ExactSigned(x.s, NShl(x.m, x.e - e), y.s, NShl(y.m, y.e - e), e)

\* the sum of the Principal column of rows 1..n
RECURSIVE PrincipalSum(_, _)
PrincipalSum(rows, n) ==
    IF n = 0 \/ Len(rows) = 0 THEN FZero
    ELSE ExactAdd(PrincipalSum(rows, n - 1), rows[n].Principal)

\* |d| <= n / 100
WithinCents(d, n) ==
    IF d.e >= 0
    THEN NCmp(NShl(NMulSmall(d.m, 100), d.e), NFromInt(n)) <= 0
    ELSE NCmp(NMulSmall(d.m, 100), NShl(NFromInt(n), 0 - d.e)) <= 0

\* C3: for every loan with principal > 0, 0 <= annual_rate < 1 and
\* years >= 1, the sum of the principal portions of all rows of the schedule
\* differs from the principal by at most 1 cent times the number of rows.
C3_PrincipalSum ==
    \A i \in Scheduled :
        Valid(loans[i]) =>
            WithinCents(ExactAdd(PrincipalSum(RowsOf(i), Len(RowsOf(i))),
                                 FNeg(loans[i].principal)),
                        Len(RowsOf(i)))

\* rows m and m + 1 of every schedule: the balance does not grow
NonIncreasing(rows) ==
    \A m \in 1..(Len(rows) - 1) :
        FLe(rows[m + 1].Remaining_Balance, rows[m].Remaining_Balance)

\* C4 as claimed: for every loan with principal > 0, 0 <= annual_rate < 1
\* and years >= 1 the remaining balance does not increase from a row to the
\* next, and the remaining balance of row 1 is at most the principal.
C4_BalanceNonIncreasing ==
    \A i \in Scheduled :
        Valid(loans[i]) =>
            /\ NonIncreasing(RowsOf(i))
            /\ FLe(RowsOf(i)[1].Remaining_Balance, loans[i].principal)

\* C4 as amended: ... and the remaining balance of row 1 is at most the
\* principal rounded to 2 decimals (the balances of the rows are rounded).
C4_BalanceNonIncreasingRounded ==
    \A i \in Scheduled :
        Valid(loans[i]) =>
            /\ NonIncreasing(RowsOf(i))
            /\ FLe(RowsOf(i)[1].Remaining_Balance, Round2(loans[i].principal))

\* a schedule whose balance falls, and whose first balance is rounded up
\* past a principal that is not a whole number of cents
C4_Witness ==
    \E i \in Scheduled :
        /\ Valid(loans[i])
        /\ FLt(loans[i].principal, RowsOf(i)[1].Remaining_Balance)
        /\ FLt(RowsOf(i)[2].Remaining_Balance, RowsOf(i)[1].Remaining_Balance)

\* C5: when annual_rate = 0 (and years >= 1) the monthly payment is
\* principal / (years * 12) exactly, and every row of the schedule has an
\* interest portion of 0 and a cumulative interest of 0.
C5_ZeroRate ==
    \A i \in 1..Len(loans) :
        IsZero(loans[i].annual_rate) =>
            /\ loans[i].monthly_payment
                   = FDiv(loans[i].principal, FromInt(loans[i].years * 12))
            /\ HasTable(loans[i]) =>
                   \A m \in 1..Len(RowsOf(i)) :
                       /\ RowsOf(i)[m].Interest = FZero
                       /\ RowsOf(i)[m].Total_Interest_Paid = FZero

\* a loan of a positive principal at rate 0 holds its schedule
C5_Witness ==
    \E i \in Scheduled :
        /\ IsZero(loans[i].annual_rate)
        /\ FLt(FZero, loans[i].principal)
        /\ Len(RowsOf(i)) = loans[i].years * 12

\* C6: after any sequence of add_loan calls compare_loans returns exactly
\* one row per added loan, in the order the loans were added: row i carries
\* the loan_name and the summary fields of the i-th loan, and the number of
\* rows is the number of add_loan calls that succeeded.
C6_RowPerLoan ==
    result.op = "compare_loans" =>
        /\ result.exc = "none"
        /\ Len(result.value) = Len(loans)
        /\ \A i \in 1..Len(loans) :
               /\ result.value[i].loan_name = loans[i].loan_name
               /\ result.value[i] = LoanSummary(loans[i]).val

\* C7 as claimed: compare_loans is a pure read: every loan's state
\* (parameters, monthly payment, schedule, and whether it has a schedule) is
\* the same after the call as before it.
C7_PureRead ==
    [][result'.op = "compare_loans" => loans' = loans]_vars

SameButSchedule(a, b) ==
    [a EXCEPT !.amortization_table = None] = [b EXCEPT !.amortization_table = None]

\* C7 as amended: compare_loans leaves every loan's parameters and monthly
\* payment as they were and a schedule a loan holds as it is; all it may
\* change is to give a schedule to a loan that had none.
C7_OnlyCaches ==
    [][result'.op = "compare_loans" =>
          /\ Len(loans') = Len(loans)
          /\ \A i \in 1..Len(loans) :
                 /\ SameButSchedule(loans[i], loans'[i])
                 /\ HasTable(loans[i]) =>
                        loans'[i].amortization_table = loans[i].amortization_table]_vars

\* compare_loans has returned the rows of two loans, of which it generated
\* the schedule of one (the other loan had its schedule before)
C7_Witness ==
    /\ result.op = "compare_loans"
    /\ result.exc = "none"
    /\ Len(loans) = 2
    /\ Len(result.generated) = 1

\* C8: get_loan_summary and get_year_end_balances never fail for want of a
\* schedule: called on a loan without one, each generates it, returns
\* normally and leaves the loan with a complete schedule.
C8_OnDemand ==
    result.op \in {"get_loan_summary", "get_year_end_balances"} =>
        /\ result.exc = "none"
        /\ HasTable(loans[result.loan])
        /\ Len(RowsOf(result.loan)) = loans[result.loan].years * 12

\* C9: for every loan with years >= 1 get_year_end_balances returns exactly
\* `years` entries, with Year = 1..years in ascending order, and the entry
\* of year k has the remaining balance, cumulative interest and cumulative
\* principal of the schedule row with Month = k * 12; it raises no error.
C9_YearEnds ==
    result.op = "get_year_end_balances" =>
        /\ result.exc = "none"
        /\ Len(result.value) = loans[result.loan].years
        /\ \A k \in 1..Len(result.value) :
               LET entry == result.value[k]
                   row   == RowsOf(result.loan)[k * 12]
               IN  /\ entry.Year = k
                   /\ row.Month = k * 12
                   /\ entry.Remaining_Balance = row.Remaining_Balance
                   /\ entry.Total_Interest_Paid = row.Total_Interest_Paid
                   /\ entry.Cumulative_Principal = row.Cumulative_Principal

\* get_year_end_balances has returned the two entries of a loan of two
\* years on which some principal is still owed at the end of year 1
C9_Witness ==
    /\ result.op = "get_year_end_balances"
    /\ Len(result.value) = 2
    /\ FLt(result.value[2].Remaining_Balance, result.value[1].Remaining_Balance)

\* the arguments of the constructor, the start date the one in effect
SameArguments(a, b) ==
    /\ a.principal = b.principal
    /\ a.annual_rate = b.annual_rate
    /\ a.years = b.years
    /\ a.start_date = b.start_date

\* C10: generating the schedule of a loan again, with nothing else changed
\* in between, gives a schedule identical to the first in every field of
\* every row, the payment dates included; and two loans constructed with
\* identical arguments (start date included) have identical schedules.
C10_Deterministic ==
    [][/\ \A i \in Scheduled :
              (result'.op = "generate_amortization_table" /\ result'.loan = i) =>
                  /\ result'.value = RowsOf(i)
                  /\ loans'[i].amortization_table = loans[i].amortization_table
       /\ \A i, j \in Scheduled :
              SameArguments(loans[i], loans[j]) =>
                  loans[i].amortization_table = loans[j].amortization_table]_vars

\* two loans of the same arguments, one constructed with the start date and
\* one taking it from the clock, both hold schedules, and the schedule of one
\* of them has just been generated after the clock moved on
C10_Witness ==
    /\ Len(loans) = 2
    /\ Scheduled = {1, 2}
    /\ SameArguments(loans[1], loans[2])
    /\ loans[1].started # loans[2].started
    /\ FLt(FZero, loans[1].principal)
    /\ result.op = "generate_amortization_table"
    /\ now > loans[1].start_date

\* the calls that generate a schedule only on demand
Queries ==
    {"get_loan_summary", "get_year_end_balances", "compare_loans",
     "get_combined_amortization"}

\* the loans whose generate_amortization_table ran during the last call
Generated(r) == {r.generated[k] : k \in 1..Len(r.generated)}

\* C11: over any sequence of get_loan_summary, get_year_end_balances,
\* compare_loans and get_combined_amortization calls a schedule that a loan
\* holds is reused and not computed again: such a call runs
\* generate_amortization_table only on loans without a schedule, at most once
\* on each, and leaves every cached schedule in place; a call that computes
\* the schedule of a loan that holds one is an explicit
\* generate_amortization_table.
C11_ComputedOnce ==
    [][result' # result =>
          /\ result'.op \in Queries =>
                /\ \A i \in Generated(result') : ~HasTable(loans[i])
                /\ Cardinality(Generated(result')) = Len(result'.generated)
                /\ \A i \in Scheduled :
                       loans'[i].amortization_table = loans[i].amortization_table
          /\ (\E i \in Generated(result') : HasTable(loans[i])) =>
                result'.op = "generate_amortization_table"]_vars

\* the set of two loans, one of which had its schedule, has been combined:
\* only the other loan's schedule was computed during the call
C11_Witness ==
    /\ result.op = "get_combined_amortization"
    /\ Len(loans) = 2
    /\ Scheduled = {1, 2}
    /\ Len(result.generated) = 1

\* C12: in every state a loan has no schedule or one of exactly years * 12
\* rows, also while generate_amortization_table is between two rows of this
\* or of another loan: the rows built so far are in the call's local
\* table_data and reach the loan in the one assignment that ends the call.
C12_NeverPartial ==
    \A i \in 1..Len(loans) :
        HasTable(loans[i]) => Len(RowsOf(i)) = loans[i].years * 12

\* generate_amortization_table has built 5 of the 12 rows of the first loan,
\* which holds no schedule, while the second loan holds its own
C12_Witness ==
    /\ Len(loans) = 2
    /\ frame.loan = 1
    /\ Len(frame.table_data) = 5
    /\ ~HasTable(loans[1])
    /\ HasTable(loans[2])

\* C13: add_loan generates no schedule: when it returns, the loan it added
\* has no schedule, and every loan added before has the schedule, or the
\* absence of one, that it had before the call.
C13_AddGeneratesNothing ==
    [][(result' # result /\ result'.op = "add_loan") \/ Len(loans') # Len(loans) =>
          /\ result'.op = "add_loan"
          /\ result'.generated = << >>
          /\ \A i \in 1..Len(loans) :
                 loans'[i].amortization_table = loans[i].amortization_table
          /\ result'.exc = "none" =>
                 /\ Len(loans') = Len(loans) + 1
                 /\ result'.loan = Len(loans')
                 /\ ~HasTable(loans'[Len(loans')])]_vars

\* a loan has just been added, without a schedule, to a set whose first loan
\* holds its schedule
C13_Witness ==
    /\ result.op = "add_loan"
    /\ result.exc = "none"
    /\ Len(loans) = 2
    /\ result.loan = 2
    /\ HasTable(loans[1])
    /\ ~HasTable(loans[2])

\* the number of rows of the loans before loan i
RECURSIVE PaymentsBefore(_)
PaymentsBefore(i) ==
    IF i <= 1 THEN 0 ELSE PaymentsBefore(i - 1) + loans[i - 1].num_payments

\* C14: get_combined_amortization returns the concatenation of the loans'
\* schedules in insertion order: the block of loan i follows the blocks of
\* the loans added before it, holds the rows of that loan's schedule with
\* Month ascending, every row carries the loan's name, the number of rows is
\* the sum of the loans' payment counts, and every loan holds a schedule
\* when the call returns.
C14_CombinedInOrder ==
    (result.op = "get_combined_amortization" /\ Len(loans) >= 1) =>
        /\ result.exc = "none"
        /\ Scheduled = 1..Len(loans)
        /\ Len(result.value) = PaymentsBefore(Len(loans) + 1)
        /\ \A i \in 1..Len(loans) : \A m \in 1..loans[i].num_payments :
               LET row == result.value[PaymentsBefore(i) + m]
                   own == RowsOf(i)[m]
               IN  /\ row.Loan_Name = loans[i].loan_name
                   /\ row.Month = m
                   /\ row.Payment_Date = own.Payment_Date
                   /\ row.Payment = own.Payment
                   /\ row.Principal = own.Principal
                   /\ row.Interest = own.Interest
                   /\ row.Remaining_Balance = own.Remaining_Balance
                   /\ row.Total_Interest_Paid = own.Total_Interest_Paid
                   /\ row.Cumulative_Principal = own.Cumulative_Principal

\* a loan of 2 years and then a loan of 1 year were added under different
\* names, and the combined table of 36 rows was returned by a call that
\* generated both schedules
C14_Witness ==
    /\ result.op = "get_combined_amortization"
    /\ result.exc = "none"
    /\ Len(loans) = 2
    /\ loans[1].years = 2
    /\ loans[2].years = 1
    /\ loans[1].loan_name # loans[2].loan_name
    /\ Len(result.generated) = 2
    /\ Len(result.value) = 36

\* C15: in the table get_combined_amortization returns, for any set of
\* loans add_loan accepted, two rows that come from different loans never
\* carry the same Loan_Name.
C15_TagsAttribute ==
    (result.op = "get_combined_amortization" /\ result.exc = "none") =>
        \A i, j \in 1..Len(loans) :
            i # j =>
                \A m \in 1..loans[i].num_payments, n \in 1..loans[j].num_payments :
                    result.value[PaymentsBefore(i) + m].Loan_Name
                        # result.value[PaymentsBefore(j) + n].Loan_Name

\* the calls made on one loan
LoanCalls ==
    {"generate_amortization_table", "get_loan_summary", "get_year_end_balances"}

\* C16: for a loan of zero or negative principal, with years >= 1 and any
\* rate >= 0, the constructor, generate_amortization_table, get_loan_summary
\* and get_year_end_balances all return without raising, and the loan's
\* schedule has years * 12 rows.
C16_DegenerateCompletes ==
    /\ (/\ result.op = "add_loan"
        /\ result.exc # "none"
        /\ result.value[3] >= 1
        /\ FLe(FZero, result.value[2])) => FLt(FZero, result.value[1])
    /\ (/\ result.op \in LoanCalls
        /\ FLe(loans[result.loan].principal, FZero)) =>
            /\ result.exc = "none"
            /\ HasTable(loans[result.loan])
            /\ Len(RowsOf(result.loan)) = loans[result.loan].years * 12

\* C17: constructing a loan with years = 0, at a zero and at a non-zero
\* rate, ends in an error that is raised: no loan of 0 payments is ever in
\* the list, and an add_loan that raises leaves the list as it was.
C17_ZeroTermSignalled ==
    [][/\ \A i \in 1..Len(loans') : loans'[i].years # 0 /\ loans'[i].num_payments # 0
       /\ (result' # result /\ result'.op = "add_loan" /\ result'.exc # "none") =>
              loans' = loans
       /\ (Len(loans') # Len(loans)) => result'.value = << >>]_vars

\* add_loan with years = 0 at the rate 0.06 has raised ZeroDivisionError on
\* a list that holds one loan
C17_Witness ==
    /\ result.op = "add_loan"
    /\ result.exc = "ZeroDivisionError"
    /\ result.value[3] = 0
    /\ ~IsZero(result.value[2])
    /\ Len(loans) = 1

\* the fields __init__ derives from the arguments, and the arguments
SameParameters(a, b) ==
    /\ a.monthly_payment = b.monthly_payment
    /\ a.principal = b.principal
    /\ a.annual_rate = b.annual_rate
    /\ a.monthly_rate = b.monthly_rate
    /\ a.years = b.years
    /\ a.num_payments = b.num_payments

\* C18: no operation changes the monthly_payment, principal, annual_rate,
\* monthly_rate, years or num_payments of a loan, and every row of every
\* schedule a loan holds records the same Payment, the loan's monthly
\* payment rounded to 2 decimals.
C18_PaymentStable ==
    [][/\ \A i \in 1..Len(loans) : SameParameters(loans'[i], loans[i])
       /\ \A i \in 1..Len(loans') :
              HasTable(loans'[i]) =>
                  LET rows == loans'[i].amortization_table.rows
                  IN  /\ rows[1].Payment = Round2(loans'[i].monthly_payment)
                      /\ \A m \in 1..Len(rows) : rows[m].Payment = rows[1].Payment]_vars

\* a loan whose monthly payment is not a whole number of cents holds its
\* schedule of 24 rows after get_loan_summary generated it
C18_Witness ==
    /\ result.op = "get_loan_summary"
    /\ result.generated = <<1>>
    /\ Len(RowsOf(1)) = 24
    /\ RowsOf(1)[24].Payment # loans[1].monthly_payment
    /\ FLt(FZero, loans[1].monthly_payment)

\* the dictionary `summary` echoes the loan and holds the three numbers
\* computed from its monthly payment
SummaryOf(summary, loan) ==
    LET total_paid     == FMul(loan.monthly_payment, FromInt(loan.num_payments))
        total_interest == FSub(total_paid, loan.principal)
    IN  /\ summary.loan_name = loan.loan_name
        /\ summary.principal = loan.principal
        /\ summary.annual_rate = loan.annual_rate
        /\ summary.years = loan.years
        /\ summary.total_payments = loan.years * 12
        /\ summary.total_paid = total_paid
        /\ summary.total_interest = total_interest
        /\ ~IsZero(total_paid)
        /\ summary.interest_percentage =
               FMul(FDiv(total_interest, total_paid), FromInt(100))

\* C19: get_loan_summary returns the loan's name, principal, annual rate,
\* years and total_payments = years * 12, with total_paid = monthly_payment *
\* num_payments, total_interest = total_paid - principal and
\* interest_percentage = total_interest / total_paid * 100, whether the call
\* generated the schedule or found it; and total_interest > 0 whenever
\* principal > 0, annual_rate > 0 and years >= 1.
C19_Summary ==
    result.op = "get_loan_summary" =>
        /\ result.exc = "none"
        /\ SummaryOf(result.value[1], loans[result.loan])
        /\ (/\ FLt(FZero, loans[result.loan].principal)
            /\ FLt(FZero, loans[result.loan].annual_rate)
            /\ loans[result.loan].years >= 1) =>
               FLt(FZero, result.value[1].total_interest)

\* C20: of two loans with the same principal > 0 and the same annual rate
\* > 0, the one with the shorter term has the strictly greater monthly
\* payment and the one with the longer term the strictly greater
\* total_interest, as compare_loans reports them.
C20_TermOrdering ==
    (result.op = "compare_loans" /\ result.exc = "none") =>
        \A i, j \in 1..Len(result.value) :
            LET a == result.value[i]
                b == result.value[j]
            IN  (/\ a.principal = b.principal
                 /\ a.annual_rate = b.annual_rate
                 /\ FLt(FZero, a.principal)
                 /\ FLt(FZero, a.annual_rate)
                 /\ a.years < b.years) =>
                    /\ FLt(b.monthly_payment, a.monthly_payment)
                    /\ FLt(a.total_interest, b.total_interest)

\* the local variables of the generate_amortization_table call that built
\* the schedule of loan i, row by row
LocalsOf(i) ==
    arith.locals[<<loans[i].principal, loans[i].monthly_rate, loans[i].num_payments,
                   loans[i].monthly_payment>>]

\* the balance before row m: the principal for the first row
BalanceBefore(i, m) ==
    IF m = 1 THEN loans[i].principal ELSE LocalsOf(i)[m - 1].remaining_balance

\* the test of line 59 succeeded on row m
ClampFired(i, m) == FLt(LocalsOf(i)[m].tested_balance, ClampThreshold)

\* C21: in a row where the clamp fires, the recorded principal portion is
\* (monthly payment - interest portion) plus the residual balance that was
\* set to zero, which is the remaining balance of the row before (the
\* principal for row 1), and the row's remaining balance is exactly 0.
C21_ClampSweepsResidual ==
    \A i \in Scheduled : \A m \in 1..Len(RowsOf(i)) :
        ClampFired(i, m) =>
            /\ RowsOf(i)[m].Remaining_Balance = FZero
            /\ RowsOf(i)[m].Principal =
                   Round2(FAdd(FSub(loans[i].monthly_payment,
                                    LocalsOf(i)[m].interest_payment),
                               LocalsOf(i)[m].tested_balance))
            /\ RowsOf(i)[m].Principal = Round2(BalanceBefore(i, m))

\* x + y - z, exactly
ExactExcess(x, y, z) == ExactAdd(ExactAdd(x, y), FNeg(z))

\* |d| <= 2^-53 * |x|: d is within the rounding error of one binary64
\* operation whose result is x
WithinRounding(d, x) ==
    IF d.m = << >> THEN TRUE
    ELSE IF x.m = << >> THEN FALSE
    ELSE LET e == IF d.e < x.e THEN d.e ELSE x.e
         IN  NCmp(NShl(d.m, MantBits + d.e - e), NShl(x.m, x.e - e)) <= 0

\* C22 as claimed: in every row on which the clamp does not fire, principal
\* portion + interest portion is the monthly payment, the interest portion is
\* the previous remaining balance * monthly_rate and the new remaining
\* balance is the previous one - principal portion, all before rounding to
\* 2 decimals.
C22_PortionsSum ==
    \A i \in Scheduled : \A m \in 1..Len(RowsOf(i)) :
        ~ClampFired(i, m) =>
            LET row == LocalsOf(i)[m]
            IN  /\ FAdd(row.principal_payment, row.interest_payment)
                       = loans[i].monthly_payment
                /\ row.interest_payment = FMul(BalanceBefore(i, m), loans[i].monthly_rate)
                /\ row.remaining_balance
                       = FSub(BalanceBefore(i, m), row.principal_payment)

\* C22 as the code has it: the principal portion is the binary64 difference
\* monthly payment - interest portion, so that principal portion + interest
\* portion is the monthly payment up to the rounding error of that one
\* subtraction; the interest portion and the new balance are as claimed.
C22_PortionsSumRounded ==
    \A i \in Scheduled : \A m \in 1..Len(RowsOf(i)) :
        ~ClampFired(i, m) =>
            LET row == LocalsOf(i)[m]
            IN  /\ row.principal_payment
                       = FSub(loans[i].monthly_payment, row.interest_payment)
                /\ WithinRounding(ExactExcess(row.principal_payment,
                                              row.interest_payment,
                                              loans[i].monthly_payment),
                                  row.principal_payment)
                /\ row.interest_payment = FMul(BalanceBefore(i, m), loans[i].monthly_rate)
                /\ row.remaining_balance
                       = FSub(BalanceBefore(i, m), row.principal_payment)

\* a loan holds a schedule of 24 rows in which the clamp does not fire on
\* row 15 and the sum of that row's two portions is not the monthly payment
C22_Witness ==
    \E i \in Scheduled :
        /\ Len(RowsOf(i)) = 24
        /\ ~ClampFired(i, 15)
        /\ FLt(FZero, LocalsOf(i)[15].interest_payment)
        /\ FAdd(LocalsOf(i)[15].principal_payment, LocalsOf(i)[15].interest_payment)
               # loans[i].monthly_payment

\* the running total of the interest portions before row m
InterestBefore(i, m) ==
    IF m = 1 THEN FZero ELSE LocalsOf(i)[m - 1].total_interest_paid

\* both cumulative columns of row m + 1 are at least those of row m
CumulativeNonDecreasing(rows) ==
    \A m \in 1..(Len(rows) - 1) :
        /\ FLe(rows[m].Total_Interest_Paid, rows[m + 1].Total_Interest_Paid)
        /\ FLe(rows[m].Cumulative_Principal, rows[m + 1].Cumulative_Principal)

\* C23: in every row the cumulative principal is the principal minus the
\* row's remaining balance, and the cumulative interest is the sum of the
\* interest portions of the rows so far, accumulated unrounded and rounded
\* to 2 decimals when recorded; for principal > 0 and rate >= 0 both columns
\* are non-decreasing from row to row and the last row's cumulative
\* principal is the principal.
C23_Cumulative ==
    \A i \in Scheduled :
        /\ \A m \in 1..Len(RowsOf(i)) :
               /\ RowsOf(i)[m].Cumulative_Principal =
                      Round2(FSub(loans[i].principal, LocalsOf(i)[m].remaining_balance))
               /\ LocalsOf(i)[m].total_interest_paid =
                      FAdd(InterestBefore(i, m), LocalsOf(i)[m].interest_payment)
               /\ RowsOf(i)[m].Total_Interest_Paid =
                      Round2(LocalsOf(i)[m].total_interest_paid)
        /\ (FLt(FZero, loans[i].principal) /\ FLe(FZero, loans[i].annual_rate)) =>
               /\ CumulativeNonDecreasing(RowsOf(i))
               /\ RowsOf(i)[Len(RowsOf(i))].Cumulative_Principal = loans[i].principal

\* no row of the schedule the loan holds has a Loan_Name column
Untagged(loan) ==
    \A m \in 1..Len(loan.amortization_table.rows) :
        "Loan_Name" \notin DOMAIN loan.amortization_table.rows[m]

\* C24: get_combined_amortization tags a copy: when it returns, every
\* schedule that a loan held has the rows and the columns it had, no
\* schedule has a Loan_Name column, and an assignment into the combined
\* table changes no loan's schedule.
C24_TagsACopy ==
    [][(result' # result /\ result'.op = "get_combined_amortization") =>
          /\ \A i \in Scheduled :
                 loans'[i].amortization_table = loans[i].amortization_table
          /\ \A i \in 1..Len(loans') :
                 HasTable(loans'[i]) => Untagged(loans'[i])]_vars

\* the caller has set the first Payment of the combined table of two loans
\* to 0.0, and the first loan's own schedule still records its payment
C24_Witness ==
    /\ result.op = "get_combined_amortization"
    /\ result.exc = "none"
    /\ Len(loans) = 2
    /\ result.value[1].Payment = FZero
    /\ RowsOf(1)[1].Payment # FZero
    /\ result.value[1].Loan_Name = loans[1].loan_name

\* C25: a call made on one loan of a set - generate_amortization_table, or
\* get_loan_summary or get_year_end_balances generating on demand - leaves
\* the parameters, the monthly payment and the cached schedule of every
\* other loan of the set as they were, whatever calls came before.
C25_LoansIndependent ==
    [][result'.op \in LoanCalls =>
          \A j \in 1..Len(loans) : j # result'.loan => loans'[j] = loans[j]]_vars

\* get_year_end_balances has generated the schedule of the second loan of a
\* set whose first loan holds a different schedule
C25_Witness ==
    /\ result.op = "get_year_end_balances"
    /\ result.loan = 2
    /\ result.generated = <<2>>
    /\ Scheduled = {1, 2}
    /\ loans[1].amortization_table # loans[2].amortization_table

\* what a loan is constructed with: the same object holds the same values
SameLoan(a, b) ==
    /\ SameArguments(a, b)
    /\ a.loan_name = b.loan_name
    /\ a.started = b.started

\* C26: the loan list only grows, at its end: a successful add_loan makes
\* it longer by exactly one, the new loan is the last entry and is the loan
\* the call returns, so that a schedule generated through the returned
\* handle is the one the set holds; and no call removes, replaces or
\* reorders the entries that were there.
C26_AppendOnly ==
    [][/\ Len(loans') \in {Len(loans), Len(loans) + 1}
       /\ \A i \in 1..Len(loans) : SameLoan(loans'[i], loans[i])
       /\ Len(loans') = Len(loans) + 1 <=>
              (result' # result /\ result'.op = "add_loan" /\ result'.exc = "none")
       /\ Len(loans') = Len(loans) + 1 => result'.loan = Len(loans')
       /\ (result.op = "add_loan" /\ result.exc = "none"
              /\ result'.op = "generate_amortization_table"
              /\ result'.loan = result.loan) =>
              /\ HasTable(loans'[Len(loans')])
              /\ loans'[Len(loans')].amortization_table.rows = result'.value]_vars

\* the schedule of the loan that was added second, generated through the
\* handle add_loan returned, is held by the second entry of the list, whose
\* first entry is a different loan
C26_Witness ==
    /\ result.op = "generate_amortization_table"
    /\ result.loan = 2
    /\ Len(loans) = 2
    /\ HasTable(loans[2])
    /\ ~HasTable(loans[1])
    /\ loans[1].principal # loans[2].principal

\* 0.01
OneCent == Literal(1, 0 - 2)

\* exactly 0, or at least 0.01
ZeroOrACent(x) == x = FZero \/ FLe(OneCent, x)

\* C27: for any inputs with years >= 1, a zero or negative principal
\* included, the remaining balance of every schedule row is exactly 0 or at
\* least 0.01, as recorded and as carried to the next row: never negative,
\* never a positive amount below one cent.
C27_BalanceZeroOrCent ==
    \A i \in Scheduled : \A m \in 1..Len(RowsOf(i)) :
        /\ ZeroOrACent(RowsOf(i)[m].Remaining_Balance)
        /\ ZeroOrACent(LocalsOf(i)[m].remaining_balance)

\* a loan of negative principal holds its schedule: the balance was
\* negative when line 59 tested it on row 1, and the row records 0
C27_Witness ==
    \E i \in Scheduled :
        /\ FLt(loans[i].principal, FZero)
        /\ FLt(LocalsOf(i)[1].tested_balance, FZero)
        /\ RowsOf(i)[1].Remaining_Balance = FZero

\* C28: for a loan with principal > 0 and rate >= 0, once a row's remaining
\* balance is 0 every later row has remaining balance 0 and interest portion
\* 0 and records the fixed payment as its principal portion; and the
\* schedule has years * 12 rows also when the balance reaches 0 before the
\* last month.
C28_ClampAbsorbing ==
    \A i \in Scheduled :
        (FLt(FZero, loans[i].principal) /\ FLe(FZero, loans[i].annual_rate)) =>
            /\ Len(RowsOf(i)) = loans[i].years * 12
            /\ \A m \in 1..Len(RowsOf(i)) : \A n \in (m + 1)..Len(RowsOf(i)) :
                   RowsOf(i)[m].Remaining_Balance = FZero =>
                       /\ RowsOf(i)[n].Remaining_Balance = FZero
                       /\ RowsOf(i)[n].Interest = FZero
                       /\ LocalsOf(i)[n].interest_payment = FZero
                       /\ RowsOf(i)[n].Principal = RowsOf(i)[n].Payment
                       /\ LocalsOf(i)[n].principal_payment = loans[i].monthly_payment

\* a loan of positive principal and positive rate holds a schedule of 12
\* rows whose balance is 0 from row 6 on
C28_Witness ==
    \E i \in Scheduled :
        /\ FLt(FZero, loans[i].principal)
        /\ FLt(FZero, loans[i].annual_rate)
        /\ Len(RowsOf(i)) = 12
        /\ RowsOf(i)[5].Remaining_Balance # FZero
        /\ RowsOf(i)[6].Remaining_Balance = FZero
        /\ RowsOf(i)[12].Remaining_Balance = FZero

\* C29: on a MortgageComparison without loans compare_loans returns a table
\* of zero rows and raises nothing, get_combined_amortization raises (the
\* concatenation of an empty list) instead of returning an empty table, and
\* after either call the loan list is still empty.
C29_EmptySet ==
    [][(Len(loans) = 0 /\ result' # result) =>
          /\ result'.op = "compare_loans" =>
                 /\ result'.exc = "none"
                 /\ result'.value = << >>
                 /\ loans' = << >>
          /\ result'.op = "get_combined_amortization" =>
                 /\ result'.exc = "ValueError"
                 /\ result'.value = << >>
                 /\ loans' = << >>]_vars

\* get_combined_amortization has raised ValueError on the empty set, after
\* the clock moved on
C29_Witness ==
    /\ result.op = "get_combined_amortization"
    /\ result.exc = "ValueError"
    /\ loans = << >>
    /\ now > 0

====
